---------------------------- MODULE Spec2Model ----------------------------
(***************************************************************************)
(* A model of chia/full_node/hint_store.py: the HintStore over the SQLite  *)
(* table hints(coin_id blob, hint blob, UNIQUE (coin_id, hint)) with the   *)
(* secondary index hint_index on hints(hint).                              *)
(*                                                                         *)
(* Byte strings are sequences of bytes.  The table is the sequence of its  *)
(* rows in rowid order; a row is <<coin_id, hint>>.  A method that runs one *)
(* statement is one action.  A method that awaits several queries under    *)
(* reader_no_transaction (one per chunk; the count and the page) is one    *)
(* action per query: pend is its position between two queries, where the   *)
(* add_hints of another task can commit.  The value a call returns, the    *)
(* call and the number of parameters bound by each of its queries are kept *)
(* in ret, op, queries until the awaiting caller has taken the result      *)
(* (Return).  Python's None is the empty option <<>>, a present value x is *)
(* <<x>>.                                                                  *)
(***************************************************************************)
EXTENDS Integers, Sequences, FiniteSets

VARIABLES
    db_version,    \* DBWrapper2.db_version of the store
    table_exists,  \* the table hints exists
    index_exists,  \* the index hint_index exists
    self,          \* a HintStore handle has been returned by create
    hints,         \* the rows of table hints, in rowid order
    inserted,      \* history: every pair handed to add_hints so far
    op,            \* the call that has just returned: [name, keys, n, cursor, since]
    ret,           \* what that call returned: [type, val]
    queries,       \* parameters bound by each query of that call
    pend,          \* the call that is between two of its queries
    run            \* a caller's pagination loop over successive pages

vars == <<db_version, table_exists, index_exists, self, hints, inserted,
          op, ret, queries, pend, run>>

---------------------------------------------------------------------------
(* Bounds of the model. *)
MaxRows == 3       \* rows the table may hold
MaxBatch == 2      \* length of a coin_hint_list given to add_hints
MaxOtherBatch == 1 \* length of a coin_hint_list of another task's add_hints
MaxKeys == 4       \* length of a key list given to a lookup
MaxItems == 2      \* max_items ranges over 0..MaxItems
MaxPageSize == 2   \* page_size ranges over 0..MaxPageSize, 1..MaxPageSize in a loop

(* Program constants. *)
SUPPORTED_DB_VERSION == 2
BYTES32_LEN == 32
\* SQLITE_MAX_VARIABLE_NUMBER is imported from chia.util.db_wrapper; here it
\* is scaled down so that key collections above it fit the bounds.
SQLITE_MAX_VARIABLE_NUMBER == 2
\* The number of parameters the SQLite library accepts in one statement
\* (SQLITE_LIMIT_VARIABLE_NUMBER of the build), scaled down likewise: as in
\* the program it leaves room for a full chunk and one parameter more.
SQLITE_LIMIT_VARIABLE_NUMBER == 3

---------------------------------------------------------------------------
(* Byte strings. *)
Rep(b, n) == [i \in 1..n |-> b]
B32(b) == Rep(b, BYTES32_LEN)

CoinIds == {B32(1), B32(2)}
HintShort == Rep(1, 10)
Hints == {HintShort, B32(1), B32(2)}
DbVersions == {1, 2, 3}

None == <<>>
Some(x) == <<x>>

Min(a, b) == IF a < b THEN a ELSE b
Range(s) == {s[i] : i \in 1..Len(s)}

\* SQLite compares blobs with memcmp, a proper prefix sorting first.
BytesLess(a, b) ==
    \/ \E k \in 1..Min(Len(a), Len(b)) :
          /\ a[k] < b[k]
          /\ \A j \in 1..(k - 1) : a[j] = b[j]
    \/ /\ Len(a) < Len(b)
       /\ \A j \in 1..Len(a) : a[j] = b[j]

BytesLeq(a, b) == a = b \/ BytesLess(a, b)

\* bytes32(b): the value itself for 32 bytes; anything else is rejected by
\* the constructor, which the model shows as the empty option.
bytes32(b) == IF Len(b) = BYTES32_LEN THEN Some(b) ELSE None

RECURSIVE SortBytes(_)
SortBytes(S) ==
    IF S = {} THEN <<>>
    ELSE LET m == CHOOSE x \in S : \A y \in S : BytesLeq(x, y)
         IN  <<m>> \o SortBytes(S \ {m})

\* Sequences over S of length lo..hi, and those without repetition.
SeqsOf(S, lo, hi) == UNION {[1..n -> S] : n \in lo..hi}
IsInjective(s) == \A i, j \in 1..Len(s) : s[i] = s[j] => i = j
Orders(S, lo, hi) == {s \in SeqsOf(S, lo, hi) : IsInjective(s)}

RECURSIVE Flatten(_)
Flatten(ss) == IF ss = <<>> THEN <<>> ELSE Head(ss) \o Flatten(Tail(ss))

Column(rows, c) == [i \in 1..Len(rows) |-> rows[i][c]]

---------------------------------------------------------------------------
(* The SQL the store runs, as SQLite evaluates it. *)

\* LIMIT n: the first n rows; a negative n is no limit.
Limit(rows, n) == IF n < 0 THEN rows ELSE SubSeq(rows, 1, Min(n, Len(rows)))

\* WHERE hint IN (keys) through hint_index: the distinct keys ascending,
\* the rows of one key in rowid order.
SearchHintIndex(tbl, keys) ==
    LET ks == SortBytes(Range(keys))
    IN  Flatten([i \in 1..Len(ks) |->
                    SelectSeq(tbl, LAMBDA r : r[2] = ks[i])])

\* WHERE hint IN (keys) by a scan of the table: the rows in rowid order.
ScanTable(tbl, keys) == SelectSeq(tbl, LAMBDA r : r[2] \in Range(keys))

\* The plans of a statement that names no index.
Plans == {"search", "scan"}

\* The rows of one coin_id in sqlite_autoindex_hints_1: ascending by hint.
AutoIndexRows(tbl, c) ==
    LET hs == SortBytes({tbl[i][2] : i \in {j \in 1..Len(tbl) : tbl[j][1] = c}})
    IN  [i \in 1..Len(hs) |-> <<c, hs[i]>>]

\* WHERE coin_id IN (keys) through sqlite_autoindex_hints_1 (coin_id, hint).
SearchAutoIndex(tbl, keys) ==
    LET ks == SortBytes(Range(keys))
    IN  Flatten([i \in 1..Len(ks) |-> AutoIndexRows(tbl, ks[i])])

\* ORDER BY coin_id over the selected coin_id column.
RECURSIVE OrderByCoinId(_)
OrderByCoinId(ids) ==
    IF ids = <<>> THEN <<>>
    ELSE LET m == CHOOSE i \in 1..Len(ids) :
                     \A j \in 1..Len(ids) : BytesLeq(ids[i], ids[j])
         IN  <<ids[m]>> \o
             OrderByCoinId([k \in 1..(Len(ids) - 1) |->
                               IF k < m THEN ids[k] ELSE ids[k + 1]])

\* INSERT into a table with UNIQUE (coin_id, hint), conflicts not ignored:
\* used only to show what OR IGNORE adds.
InsertPlain(tbl, row) == Append(tbl, row)

\* INSERT OR IGNORE INTO hints VALUES(?, ?): a row already there is skipped.
InsertOrIgnore(tbl, row) ==
    IF row \in Range(tbl) THEN tbl ELSE Append(tbl, row)

\* executemany: the statement once per element, in order.
RECURSIVE ExecuteMany(_, _)
ExecuteMany(tbl, rows) ==
    IF rows = <<>> THEN tbl
    ELSE ExecuteMany(InsertOrIgnore(tbl, Head(rows)), Tail(rows))

---------------------------------------------------------------------------
(* chia.util.batches.to_batches: the keys cut, in order, into chunks of at *)
(* most limit keys; an empty collection gives no chunk.                    *)
CeilDiv(n, d) == (n + d - 1) \div d

to_batches(keys, limit) ==
    [i \in 1..CeilDiv(Len(keys), limit) |->
        SubSeq(keys, (i - 1) * limit + 1, Min(i * limit, Len(keys)))]

---------------------------------------------------------------------------
(* What a call returns. *)
RetList(v) == [type |-> "list", val |-> v]
RetDict(f) == [type |-> "dict", val |-> f]
RetTuple(page, next_last_id, total) ==
    [type |-> "tuple", val |-> <<page, next_last_id, total>>]
RetInt(n) == [type |-> "int", val |-> n]
RetNone == [type |-> "None", val |-> <<>>]
RetHandle == [type |-> "HintStore", val |-> <<>>]
Raise(e) == [type |-> "raise", val |-> e]

Out(r, q) == [ret |-> r, queries |-> q]

\* [bytes32(x) for x in bs]: the constructor raises on any other length.
Bytes32List(bs) ==
    IF \A i \in 1..Len(bs) : bytes32(bs[i]) # None
    THEN RetList(Flatten([i \in 1..Len(bs) |-> bytes32(bs[i])]))
    ELSE Raise("ValueError")

\* conn.execute of a statement with n parameters, r being what the call
\* makes of its rows: the library refuses a statement with more parameters
\* than its limit (sqlite3.OperationalError: too many SQL variables), and
\* the call ends there.
Execute(n, r) ==
    IF n > SQLITE_LIMIT_VARIABLE_NUMBER THEN Raise("OperationalError") ELSE r

---------------------------------------------------------------------------
(* The single-query reads, as functions of the table and their arguments. *)

get_coin_ids(tbl, hint, max_items) ==
    LET rows == Limit(SearchHintIndex(tbl, <<hint>>), max_items)
    IN  Out(Execute(2, Bytes32List(Column(rows, 1))), <<2>>)

\* The statement names no index and no order: the rows come in the order
\* of the plan SQLite chooses, a search of hint_index or a scan of the
\* table.
get_coin_ids_by_hints(tbl, hs, plan) ==
    LET rows == IF plan = "search" THEN SearchHintIndex(tbl, hs)
                ELSE ScanTable(tbl, hs)
    IN  IF Len(hs) = 0 THEN Out(RetList(<<>>), <<>>)
        ELSE Out(Execute(Len(hs), RetList(Column(rows, 1))), <<Len(hs)>>)

\* dict(): a later row of a coin_id overwrites an earlier one.
DictOfRows(rows) ==
    [c \in {rows[i][1] : i \in 1..Len(rows)} |->
        LET last == CHOOSE i \in 1..Len(rows) :
                       /\ rows[i][1] = c
                       /\ \A j \in (i + 1)..Len(rows) : rows[j][1] # c
        IN  rows[last][2]]

get_hints_for_coin_ids(tbl, coin_ids) ==
    IF Len(coin_ids) = 0 THEN Out(RetList(<<>>), <<>>)
    ELSE Out(Execute(Len(coin_ids),
                     RetDict(DictOfRows(SearchAutoIndex(tbl, coin_ids)))),
             <<Len(coin_ids)>>)

count_hints(tbl) == Out(RetInt(Len(tbl)), <<0>>)

---------------------------------------------------------------------------
(* The queries of the reads that await more than one. *)

\* get_coin_ids_by_hints_paginated: SELECT coin_id ... WHERE hint in (hs)
\* [AND coin_id > last_id] ORDER BY coin_id LIMIT page_size
PageQuery(tbl, hs, page_size, last_id) ==
    LET sel == SelectSeq(SearchHintIndex(tbl, hs),
                         LAMBDA r : last_id = None \/ BytesLess(last_id[1], r[1]))
    IN  Limit(OrderByCoinId(Column(sel, 1)), page_size)

\* get_coin_ids_by_hints_paginated: SELECT COUNT(*) ... WHERE hint in (hs)
CountQuery(tbl, hs) == Len(SearchHintIndex(tbl, hs))

\* The query of one chunk of get_coin_ids_multi with its LIMIT left out.
MultiQueryNoLimit(tbl, batch, max_items) ==
    Column(SearchHintIndex(tbl, batch), 1)

\* get_coin_ids_multi, one chunk: SELECT coin_id from hints INDEXED BY
\* hint_index WHERE hint IN (batch) LIMIT max_items
MultiQuery(tbl, batch, max_items) ==
    Column(Limit(SearchHintIndex(tbl, batch), max_items), 1)

\* get_hints, one chunk: SELECT hint from hints WHERE coin_id IN (batch),
\* and of its rows those with len(row[0]) == 32.
HintsQuery(tbl, batch) ==
    SelectSeq(Column(SearchAutoIndex(tbl, batch), 2),
              LAMBDA h : Len(h) = BYTES32_LEN)

---------------------------------------------------------------------------
(* The state machine. *)

Call(name, keys, n, cursor, since) ==
    [name |-> name, keys |-> keys, n |-> n, cursor |-> cursor, since |-> since]

NoCall == Call("none", <<>>, 0, None, 0)

\* No result is held by the caller: it may make the next call.
Ready == op = NoCall

\* A call between two of its queries: the queries done, the rows
\* gathered, the count fetched, the parameters bound so far, and the
\* number of rows the table held when the call began.
NoPend == [name |-> "none", keys |-> <<>>, n |-> 0, cursor |-> None,
           done |-> 0, acc |-> <<>>, total |-> None, queries |-> <<>>,
           since |-> 0]

Begin(name, keys, n, cursor) ==
    [NoPend EXCEPT !.name = name, !.keys = keys, !.n = n, !.cursor = cursor,
                   !.since = Len(hints)]

NoRun == [state |-> "idle", hints |-> <<>>, page_size |-> 0, cursor |-> None,
          pages |-> <<>>, total |-> None, base |-> {}, clean |-> TRUE]

Rows == CoinIds \X Hints

\* The arguments of the calls: lists of pairs, of hints and of coin ids, and
\* the orders in which a set of hints is iterated.
CoinHintLists == SeqsOf(Rows, 0, MaxBatch)

\* The lists another task inserts in one call: a longer list is stored as
\* its pairs are when inserted one call after the other.
OtherCoinHintLists == SeqsOf(Rows, 1, MaxOtherBatch)

HintLists == SeqsOf(Hints, 0, MaxKeys)

HintSets == Orders(Hints, 0, MaxKeys)

CoinIdLists == SeqsOf(CoinIds, 0, MaxKeys)

\* A store of some schema version, nothing created in it yet.
Init ==
    /\ db_version \in DbVersions
    /\ table_exists = FALSE
    /\ index_exists = FALSE
    /\ self = FALSE
    /\ hints = <<>>
    /\ inserted = {}
    /\ op = NoCall
    /\ ret = RetNone
    /\ queries = <<>>
    /\ pend = NoPend
    /\ run = NoRun

\* The caller makes a call: it holds no result and has no call in flight.
CanCall == Ready /\ pend = NoPend

\* HintStore.create on a schema it does not support: raises before the
\* writer is opened.
CreateUnsupported ==
    /\ CanCall
    /\ db_version # SUPPORTED_DB_VERSION
    /\ op' = Call("create", <<>>, 0, None, Len(hints))
    /\ ret' = Raise("RuntimeError")
    /\ queries' = <<>>
    /\ UNCHANGED <<db_version, table_exists, index_exists, self, hints,
                   inserted, pend, run>>

\* CREATE TABLE IF NOT EXISTS keeps the rows of a table that exists.
CreateTableIfNotExists(exists, tbl) == IF exists THEN tbl ELSE <<>>

\* CREATE TABLE with the table dropped first: what IF NOT EXISTS avoids.
CreateTableAfresh(exists, tbl) == <<>>

CreateTable(exists, tbl) == CreateTableIfNotExists(exists, tbl)

\* HintStore.create on the supported schema.
CreateSupported ==
    /\ CanCall
    /\ db_version = SUPPORTED_DB_VERSION
    /\ hints' = CreateTable(table_exists, hints)
    /\ table_exists' = TRUE
    /\ index_exists' = TRUE
    /\ self' = TRUE
    /\ op' = Call("create", <<>>, 0, None, Len(hints))
    /\ ret' = RetHandle
    /\ queries' = <<0, 0>>
    /\ UNCHANGED <<db_version, inserted, pend, run>>

Create == CreateUnsupported \/ CreateSupported

\* A pagination loop is between its first and its last page call.
RunActive == run.state \in {"calling", "between"}

\* The caller is in no pagination loop.
NoLoop == run.state = "idle"

\* HintStore.add_hints, called by the caller whose calls op records.
AddHints ==
    /\ CanCall
    /\ self
    /\ NoLoop
    /\ \E coin_hint_list \in CoinHintLists :
          /\ Len(ExecuteMany(hints, coin_hint_list)) <= MaxRows
          /\ op' = Call("add_hints", coin_hint_list, 0, None, Len(hints))
          /\ IF Len(coin_hint_list) = 0
             THEN /\ queries' = <<>>
                  /\ UNCHANGED <<hints, inserted>>
             ELSE /\ hints' = ExecuteMany(hints, coin_hint_list)
                  /\ inserted' = inserted \cup Range(coin_hint_list)
                  /\ queries' = [i \in 1..Len(coin_hint_list) |-> 2]
    /\ ret' = RetNone
    /\ UNCHANGED <<db_version, table_exists, index_exists, self, pend, run>>

\* HintStore.add_hints of another task, committed while a read of the
\* caller is between two queries or its pagination loop between two pages.
OtherAddHints ==
    /\ Ready
    /\ self
    /\ pend # NoPend \/ RunActive
    /\ \E stored \in {ExecuteMany(hints, coin_hint_list) :
                        coin_hint_list \in OtherCoinHintLists} :
          /\ Len(stored) <= MaxRows
          /\ hints' = stored
          /\ inserted' = inserted \cup Range(stored)
    /\ run' = IF RunActive /\ hints' # hints
              THEN [run EXCEPT !.clean = FALSE] ELSE run
    /\ UNCHANGED <<db_version, table_exists, index_exists, self, op, ret,
                   queries, pend>>

\* The call p returns r after binding the parameters q.
Finish(p, r, q) ==
    /\ op' = Call(p.name, p.keys, p.n, p.cursor, p.since)
    /\ ret' = r
    /\ queries' = q
    /\ pend' = NoPend

\* The call p awaits its next query.
Await(p) ==
    /\ pend' = p
    /\ UNCHANGED <<op, ret, queries>>

Store == <<db_version, table_exists, index_exists, self, hints, inserted>>

\* A read of one query: the store is left as it is.
Read(call, out) ==
    /\ op' = call
    /\ ret' = out.ret
    /\ queries' = out.queries
    /\ UNCHANGED <<Store, pend, run>>

GetCoinIds ==
    /\ CanCall
    /\ self
    /\ \E hint \in Hints, max_items \in 0..MaxItems :
          Read(Call("get_coin_ids", <<hint>>, max_items, None, Len(hints)),
               get_coin_ids(hints, hint, max_items))

GetCoinIdsByHints ==
    /\ CanCall
    /\ self
    /\ \E hs \in HintLists, plan \in Plans :
          Read(Call("get_coin_ids_by_hints", hs, 0, None, Len(hints)),
               get_coin_ids_by_hints(hints, hs, plan))

GetHintsForCoinIds ==
    /\ CanCall
    /\ self
    /\ \E coin_ids \in CoinIdLists :
          Read(Call("get_hints_for_coin_ids", coin_ids, 0, None, Len(hints)),
               get_hints_for_coin_ids(hints, coin_ids))

CountHints ==
    /\ CanCall
    /\ self
    /\ Read(Call("count_hints", <<>>, 0, None, Len(hints)), count_hints(hints))

---------------------------------------------------------------------------
(* get_coin_ids_multi and get_hints: one query per chunk of to_batches. *)

\* The query of the next chunk of call p on the table as it is now, what
\* extend adds to the result, and the return after the last chunk.
ChunkStep(p) ==
    LET batches == to_batches(p.keys, SQLITE_MAX_VARIABLE_NUMBER)
        batch == batches[p.done + 1]
        rows == IF p.name = "get_coin_ids_multi"
                THEN MultiQuery(hints, batch, p.n)
                ELSE HintsQuery(hints, batch)
        bound == IF p.name = "get_coin_ids_multi"
                 THEN Len(batch) + 1 ELSE Len(batch)
        r == Execute(bound, Bytes32List(rows))
        q == Append(p.queries, bound)
    IN  IF r.type = "raise" THEN Finish(p, r, q)
        ELSE IF p.done + 1 = Len(batches)
             THEN Finish(p, RetList(p.acc \o r.val), q)
             ELSE Await([p EXCEPT !.done = p.done + 1,
                                  !.acc = p.acc \o r.val,
                                  !.queries = q])

\* The call begins: no chunk and no query for no keys.
ChunkedCall(p) ==
    /\ IF Len(p.keys) = 0 THEN Finish(p, RetList(<<>>), <<>>) ELSE ChunkStep(p)
    /\ UNCHANGED <<Store, run>>

\* hints is a set: hs is the order in which to_batches iterates over it.
GetCoinIdsMulti ==
    /\ CanCall
    /\ self
    /\ \E hs \in HintSets, max_items \in 0..MaxItems :
          ChunkedCall(Begin("get_coin_ids_multi", hs, max_items, None))

GetHints ==
    /\ CanCall
    /\ self
    /\ \E coin_ids \in CoinIdLists :
          ChunkedCall(Begin("get_hints", coin_ids, 0, None))

\* The query of a later chunk of get_coin_ids_multi or get_hints.
NextChunk ==
    /\ pend.name \in {"get_coin_ids_multi", "get_hints"}
    /\ ChunkStep(pend)
    /\ UNCHANGED <<Store, run>>

---------------------------------------------------------------------------
(* get_coin_ids_by_hints_paginated: the count query when last_id is None, *)
(* then the page query.                                                   *)

\* The page query of call p and its return.
PageStep(p) ==
    LET coin_ids == PageQuery(hints, p.keys, p.n, p.cursor)
        next_last_id == IF Len(coin_ids) > 0 THEN Some(coin_ids[Len(coin_ids)])
                        ELSE p.cursor
        bound == Len(p.keys) + Len(p.cursor)
    IN  Finish(p, Execute(bound, RetTuple(coin_ids, next_last_id, p.total)),
               Append(p.queries, bound))

\* The call begins: an early return for no hints, the count query for no
\* last_id, the page query otherwise.
PageCall(p) ==
    IF Len(p.keys) = 0 THEN Finish(p, RetList(<<>>), <<>>)
    ELSE IF p.cursor # None THEN PageStep(p)
    ELSE LET count == Execute(Len(p.keys), RetInt(CountQuery(hints, p.keys)))
         IN  IF count.type = "raise" THEN Finish(p, count, <<Len(p.keys)>>)
             ELSE Await([p EXCEPT !.done = 1,
                                  !.total = Some(count.val),
                                  !.queries = <<Len(p.keys)>>])

Cursors == {None} \cup {Some(c) : c \in CoinIds}

\* The coin ids that have a record whose hint is among hs.
Matching(tbl, hs) == {tbl[i][1] : i \in {j \in 1..Len(tbl) : tbl[j][2] \in Range(hs)}}

\* What a pagination loop keeps of the page call that has returned rv, and
\* whether it goes on: it stops at a page shorter than page_size, and it
\* fails when the call raises.
RunAfter(r, rv) ==
    IF rv.type = "raise" THEN [r EXCEPT !.state = "failed"]
    ELSE LET page == rv.val[1]
         IN  [r EXCEPT !.state = IF Len(page) < r.page_size THEN "done"
                                 ELSE "between",
                       !.cursor = rv.val[2],
                       !.pages = Append(r.pages, page),
                       !.total = IF r.cursor = None THEN rv.val[3] ELSE r.total]

\* One call of get_coin_ids_by_hints_paginated, with any cursor.
GetCoinIdsByHintsPaginated ==
    /\ CanCall
    /\ self
    /\ NoLoop
    /\ \E hs \in HintLists, page_size \in 0..MaxPageSize,
          last_id \in Cursors :
          PageCall(Begin("get_coin_ids_by_hints_paginated", hs, page_size, last_id))
    /\ UNCHANGED <<Store, run>>

\* The page query of a call that has fetched the count.
PageAfterCount ==
    /\ pend.name = "get_coin_ids_by_hints_paginated"
    /\ PageStep(pend)
    /\ run' = IF run.state = "calling" THEN RunAfter(run, ret') ELSE run
    /\ UNCHANGED Store

\* A pagination loop calls for its first page: the cursor is absent.
RunStart ==
    /\ CanCall
    /\ self
    /\ run.state = "idle"
    /\ \E hs \in HintLists \ {<<>>}, page_size \in 1..MaxPageSize :
          /\ PageCall(Begin("get_coin_ids_by_hints_paginated", hs, page_size, None))
          /\ LET r == [NoRun EXCEPT !.state = "calling", !.hints = hs,
                                    !.page_size = page_size,
                                    !.base = Matching(hints, hs)]
             IN  run' = IF pend' = NoPend THEN RunAfter(r, ret') ELSE r
    /\ UNCHANGED Store

\* It calls for a later page: the cursor is the next_last_id of the page
\* before.
RunNext ==
    /\ CanCall
    /\ self
    /\ run.state = "between"
    /\ PageCall(Begin("get_coin_ids_by_hints_paginated", run.hints,
                      run.page_size, run.cursor))
    /\ run' = IF pend' = NoPend THEN RunAfter(run, ret')
              ELSE [run EXCEPT !.state = "calling"]
    /\ UNCHANGED Store

\* The caller leaves the loop with what it has collected.
RunEnd ==
    /\ CanCall
    /\ run.state \in {"done", "failed"}
    /\ run' = NoRun
    /\ UNCHANGED <<Store, op, ret, queries, pend>>

\* The awaiting caller takes the result of the call.
Return ==
    /\ ~Ready
    /\ op' = NoCall
    /\ ret' = RetNone
    /\ queries' = <<>>
    /\ UNCHANGED <<Store, pend, run>>

\* The store with a caller of every method but the paginated one, and
\* other tasks that insert.
Next ==
    \/ Create
    \/ AddHints
    \/ OtherAddHints
    \/ GetCoinIds
    \/ GetCoinIdsByHints
    \/ GetCoinIdsMulti
    \/ GetHints
    \/ NextChunk
    \/ GetHintsForCoinIds
    \/ CountHints
    \/ Return

Spec == Init /\ [][Next]_vars

\* The store with a caller that paginates, and other tasks that insert.
NextPage ==
    \/ Create
    \/ AddHints
    \/ OtherAddHints
    \/ GetCoinIdsByHintsPaginated
    \/ PageAfterCount
    \/ RunStart
    \/ RunNext
    \/ RunEnd
    \/ Return

SpecPage == Init /\ [][NextPage]_vars

---------------------------------------------------------------------------
(* Properties. *)

RECURSIVE Sum(_)
Sum(ns) == IF ns = <<>> THEN 0 ELSE Head(ns) + Sum(Tail(ns))

\* The positions of the rows of tbl whose hint is among hs.
RowsWithHint(tbl, hs) == {i \in 1..Len(tbl) : tbl[i][2] \in Range(hs)}

\* The hints stored for coin id c.
HintsOf(tbl, c) == {tbl[i][2] : i \in {j \in 1..Len(tbl) : tbl[j][1] = c}}

StrictlyAscending(ids) ==
    \A i \in 1..(Len(ids) - 1) : BytesLess(ids[i], ids[i + 1])

\* C2, in every state: no pair is stored twice, the stored pairs are the
\* pairs inserted so far, and count() is the number of distinct pairs
\* inserted so far.
UniquePairs ==
    /\ IsInjective(hints)
    /\ Range(hints) = inserted
    /\ count_hints(hints).ret = RetInt(Cardinality(inserted))

\* C2, for every step: the rows stored before stay where they are,
\* whichever task inserts; and for every add_hints step of the caller:
\* every pair of the batch is stored afterwards and nothing else is added,
\* and a batch of pairs that are all stored already changes nothing.
AddHintsStep ==
    /\ Len(hints') >= Len(hints)
    /\ SubSeq(hints', 1, Len(hints)) = hints
    /\ op'.name = "add_hints" =>
          /\ ret' = RetNone
          /\ Range(hints') = Range(hints) \cup Range(op'.keys)
          /\ Range(op'.keys) \subseteq Range(hints) => hints' = hints

\* C2: idempotent insert and the uniqueness of (coin_id, hint).
ThmC2 == [](UniquePairs) /\ [][AddHintsStep]_vars

\* A batch that repeats one pair, stored as the first row by an earlier
\* batch, with another row stored in between.
WitC2 ==
    /\ op.name = "add_hints"
    /\ Len(op.keys) = 2
    /\ op.keys[1] = op.keys[2]
    /\ Len(hints) = 2
    /\ hints[1] = op.keys[1]
    /\ hints[2][1] = hints[1][1]
    /\ hints[2][2] # hints[1][2]

\* C9, in every state: on an unsupported schema version nothing is ever
\* created and create raises without a query; on the supported one create
\* returns a handle and the table and the index exist.
CreateOutcome ==
    /\ db_version # SUPPORTED_DB_VERSION =>
          /\ ~table_exists /\ ~index_exists /\ ~self /\ hints = <<>>
          /\ op.name = "create" => ret = Raise("RuntimeError") /\ queries = <<>>
    /\ db_version = SUPPORTED_DB_VERSION /\ op.name = "create" =>
          ret = RetHandle /\ table_exists /\ index_exists /\ self
    /\ self => table_exists /\ index_exists

\* C9, for every create step: the stored records are left as they are.
CreateStep == op'.name = "create" => hints' = hints

\* C9: create fails on another schema version before touching the store,
\* and is idempotent on the supported one.
ThmC9 == [](CreateOutcome) /\ [][CreateStep]_vars

\* create has been called again on a store that holds records.
WitC9 ==
    /\ op.name = "create"
    /\ ret = RetHandle
    /\ Len(hints) >= 2

\* The number of coin ids chunk b adds to the result under the cap n.
ChunkShare(tbl, b, n) == Min(n, Cardinality(RowsWithHint(tbl, b)))

\* The table as it was when it held n rows: rows are only ever appended.
TableAt(n) == SubSeq(hints, 1, n)

\* The table lengths at which the queries of a call of k chunks can have
\* run: one after the other, between the call and its return.
QueryTimes(k) ==
    {at \in [1..k -> op.since..Len(hints)] :
        \A i \in 1..(k - 1) : at[i] <= at[i + 1]}

\* C8: get_coin_ids_multi applies max_items to every chunk on its own: the
\* chunks are ceil(|hints| / limit) many, chunk i adds exactly
\* min(max_items, records matching its hints when its query runs) coin
\* ids, each of them stored with a hint of chunk i, so the result has at
\* most chunks * max_items entries and is not cut down to max_items as a
\* whole.
ThmC8 ==
    op.name = "get_coin_ids_multi" =>
        LET chunks == to_batches(op.keys, SQLITE_MAX_VARIABLE_NUMBER)
        IN  /\ ret.type = "list"
            /\ Len(chunks) = CeilDiv(Len(op.keys), SQLITE_MAX_VARIABLE_NUMBER)
            /\ Len(ret.val) <= Len(chunks) * op.n
            /\ \E at \in QueryTimes(Len(chunks)) :
                  LET share == [i \in 1..Len(chunks) |->
                                   ChunkShare(TableAt(at[i]), chunks[i], op.n)]
                      start(i) == Sum(SubSeq(share, 1, i - 1))
                  IN  /\ Len(ret.val) = Sum(share)
                      /\ \A i \in 1..Len(chunks) : \A k \in 1..share[i] :
                            \E h \in Range(chunks[i]) :
                                <<ret.val[start(i) + k], h>> \in
                                    Range(TableAt(at[i]))

\* Two chunks that both reach the cap, the second one with a record
\* inserted after the call began: more than max_items coin ids are
\* returned.
WitC8 ==
    /\ op.name = "get_coin_ids_multi"
    /\ op.n >= 1
    /\ Len(op.keys) > SQLITE_MAX_VARIABLE_NUMBER
    /\ op.since < Len(hints)
    /\ Len(hints) > 2 * op.n
    /\ Len(ret.val) = 2 * op.n
    /\ Cardinality(RowsWithHint(TableAt(op.since),
           to_batches(op.keys, SQLITE_MAX_VARIABLE_NUMBER)[2])) = 0

\* C3 as stated: neither get_hints nor get_hints_for_coin_ids returns a
\* hint whose length is not 32, no element of the list and no value of the
\* mapping, whatever records the store holds.
CexC3 ==
    /\ op.name = "get_hints" /\ ret.type = "list" =>
          \A i \in 1..Len(ret.val) : Len(ret.val[i]) = BYTES32_LEN
    /\ op.name = "get_hints_for_coin_ids" /\ ret.type = "dict" =>
          \A c \in DOMAIN ret.val : Len(ret.val[c]) = BYTES32_LEN

\* The reads that take a collection of keys.
MultiKeyReads == {"get_coin_ids_by_hints", "get_coin_ids_multi", "get_hints",
                  "get_hints_for_coin_ids", "get_coin_ids_by_hints_paginated"}

\* C4 as stated: no query of a multi-key read binds more parameters than
\* the backend accepts, whatever the number of keys, and
\* get_coin_ids_by_hints returns the coin ids of all matching records.
CexC4 ==
    /\ op.name \in MultiKeyReads =>
          \A i \in 1..Len(queries) : queries[i] <= SQLITE_LIMIT_VARIABLE_NUMBER
    /\ op.name = "get_coin_ids_by_hints" =>
          ret.type = "list" /\ Range(ret.val) = Matching(hints, op.keys)

\* The union of get_coin_ids(h) over the hints h of hs, uncapped.
UnionOfLookups(tbl, hs) ==
    UNION {Range(get_coin_ids(tbl, h, -1).ret.val) : h \in Range(hs)}

\* C5 as stated: in one store state (no write between the call and its
\* return), for more hints than SQLITE_MAX_VARIABLE_NUMBER and a cap no
\* chunk reaches, get_coin_ids_multi returns the union of get_coin_ids
\* over the hints, and no coin id twice.
CexC5 ==
    /\ op.name = "get_coin_ids_multi"
    /\ op.since = Len(hints)
    /\ Len(op.keys) > SQLITE_MAX_VARIABLE_NUMBER
    /\ \A i \in 1..Len(to_batches(op.keys, SQLITE_MAX_VARIABLE_NUMBER)) :
          Cardinality(RowsWithHint(hints,
              to_batches(op.keys, SQLITE_MAX_VARIABLE_NUMBER)[i])) <= op.n
    => /\ ret.type = "list"
       /\ Range(ret.val) = UnionOfLookups(hints, op.keys)
       /\ IsInjective(ret.val)

\* C7 as stated: a call with no keys (add_hints with no pairs) issues no
\* query, raises nothing and returns the empty result of its kind: an
\* empty list, an empty mapping for get_hints_for_coin_ids, and the triple
\* ([], None, None) for get_coin_ids_by_hints_paginated.
CexC7 ==
    op.name \in MultiKeyReads \cup {"add_hints"} /\ Len(op.keys) = 0 =>
        /\ queries = <<>>
        /\ Range(hints) = inserted
        /\ ret = CASE op.name = "add_hints" -> RetNone
                   [] op.name = "get_hints_for_coin_ids" -> RetDict(<<>>)
                   [] op.name = "get_coin_ids_by_hints_paginated" ->
                          RetTuple(<<>>, None, None)
                   [] OTHER -> RetList(<<>>)

\* The pages of the run, one after the other.
Collected == Flatten(run.pages)

\* C1 as stated: a run that no write interleaved with and that ended on a
\* short page has collected, strictly ascending and with no coin id twice,
\* exactly the coin ids of the records whose hint is among the hints.
CexC1 ==
    run.state = "done" /\ run.clean =>
        /\ StrictlyAscending(Collected)
        /\ IsInjective(Collected)
        /\ Range(Collected) = run.base

\* C6 as stated: a call that returns a page returns total_count exactly
\* when the cursor is absent, and total_count is the number of coin ids
\* that a complete run over the same hints collects when no write
\* interleaves, between two pages or between the count and the page query.
CexC6 ==
    /\ op.name = "get_coin_ids_by_hints_paginated" /\ ret.type = "tuple" =>
          (ret.val[3] # None <=> op.cursor = None)
    /\ run.state = "done" /\ run.clean => run.total = Some(Len(Collected))

\* C10 as stated: whatever add_hints calls interleave with a run, a coin id
\* matching before the first page is in exactly one page of the finished
\* run, the cursor grows with every page that is not empty, and the pages
\* one after the other are strictly ascending.
CexC10 ==
    /\ run.state = "done" =>
          \A c \in run.base :
              Cardinality({i \in 1..Len(run.pages) : c \in Range(run.pages[i])}) = 1
    /\ \A i \in 1..(Len(run.pages) - 1) :
          run.pages[i] # <<>> /\ run.pages[i + 1] # <<>> =>
              BytesLess(run.pages[i][Len(run.pages[i])],
                        run.pages[i + 1][Len(run.pages[i + 1])])
    /\ StrictlyAscending(Collected)

---------------------------------------------------------------------------
(* What does hold of the paginated and the capped lookup, duplicates aside. *)

\* A finished run that no write interleaved with has collected, as a set,
\* the matching coin ids, in an order that never descends.
PagesCoverMatching ==
    /\ run.state = "done" /\ run.clean => Range(Collected) = run.base
    /\ \A i \in 1..(Len(Collected) - 1) : BytesLeq(Collected[i], Collected[i + 1])

\* Under interleaved inserts a coin id that matched before the first page
\* is in exactly one page of the finished run.
PagesCoverBase ==
    run.state = "done" =>
        \A c \in run.base :
            Cardinality({i \in 1..Len(run.pages) : c \in Range(run.pages[i])}) = 1

\* In one store state and with a cap no chunk reaches, get_coin_ids_multi
\* returns, as a set, the union of the single-hint lookups.
MultiIsUnion ==
    /\ op.name = "get_coin_ids_multi"
    /\ op.since = Len(hints)
    /\ \A i \in 1..Len(to_batches(op.keys, SQLITE_MAX_VARIABLE_NUMBER)) :
          Cardinality(RowsWithHint(hints,
              to_batches(op.keys, SQLITE_MAX_VARIABLE_NUMBER)[i])) <= op.n
    => Range(ret.val) = UnionOfLookups(hints, op.keys)

---------------------------------------------------------------------------
(* What the reverse lookups do return. *)

\* The hints of 32 bytes stored for the coin ids of chunk b.
Hints32Of(tbl, b) ==
    {h \in UNION {HintsOf(tbl, c) : c \in Range(b)} : Len(h) = BYTES32_LEN}

\* get_hints does filter: it returns the hints stored for the coin ids of
\* each chunk, when the query of the chunk runs, that are 32 bytes long,
\* and no other.
GetHintsFiltered ==
    op.name = "get_hints" =>
        /\ ret.type = "list"
        /\ \A i \in 1..Len(ret.val) : Len(ret.val[i]) = BYTES32_LEN
        /\ LET chunks == to_batches(op.keys, SQLITE_MAX_VARIABLE_NUMBER)
           IN  \E at \in QueryTimes(Len(chunks)) :
                   Range(ret.val) =
                       UNION {Hints32Of(TableAt(at[i]), chunks[i]) :
                                 i \in 1..Len(chunks)}

\* get_hints_for_coin_ids does not: a mapping it returns holds, for every
\* given coin id that has a record, the last hint stored for it in the
\* (coin_id, hint) index order, whatever its length.
HintMapUnfiltered ==
    op.name = "get_hints_for_coin_ids" /\ ret.type = "dict" =>
        /\ DOMAIN ret.val = {c \in Range(op.keys) : HintsOf(hints, c) # {}}
        /\ \A c \in DOMAIN ret.val :
              /\ ret.val[c] \in HintsOf(hints, c)
              /\ \A h \in HintsOf(hints, c) : BytesLeq(h, ret.val[c])

=============================================================================
